---- MODULE Spec2Model ----
(***************************************************************************)
(* Model of pivot.py: the fixed-width record parser (Result), the index    *)
(* building loop, the allow-list computation and the bandwidth sweep of    *)
(* runBandwidthCalculations with its three report artifacts.               *)
(*                                                                         *)
(* Text is modelled as sequences of one-character strings.  Times are      *)
(* exact rationals <<numerator, denominator>>; float rounding is not       *)
(* modelled.                                                               *)
(***************************************************************************)
EXTENDS Integers, Sequences, FiniteSets, TLC

VARIABLES
  line,                \* parseLine's argument
  parsed,              \* parseLine's return value (Unparsed before the call)
  allResults,          \* list of records built at pivot.py:173
  idx,                 \* number of records the index loop has finished
  logResults,          \* (distribution, frequency, algorithm) -> record
  frequencies,         \* set, then sorted list, of frequency names
  algorithms,          \* set (188-212), then sorted list (218-253)
  dataset2results,     \* dataset name -> list of records
  listOfAllAlgorithms, \* the global allow-list (254)
  pc,                  \* position of the module-level code
  err,                 \* exception that ended the module-level code, or "none"
  runIdx,              \* number of report runs started
  dirExists,           \* whether details/ exists
  files,               \* file name -> rows written (files that exist)
  files0,              \* the files as they were before the program started
  openLog,             \* every attempt to open a file for writing
  stdout,              \* lines printed by the report runs
  proc                 \* label -> frame of a runBandwidthCalculations call

vars == <<line, parsed, allResults, idx, logResults, frequencies, algorithms,
          dataset2results, listOfAllAlgorithms, pc, err, runIdx, dirExists,
          files, files0, openLog, stdout, proc>>

parseVars == <<line, parsed>>
indexVars == <<allResults, idx, logResults, frequencies, algorithms,
               dataset2results, listOfAllAlgorithms>>
fsVars    == <<dirExists, files, files0, openLog, stdout>>

\* ------------------------------------------------------------------------
\* Bounds of the model
\* ------------------------------------------------------------------------
MaxLineLen  == 182   \* longest input line given to parseLine
ShortLen    == 165   \* line lengths ShortLen..MaxLineLen (and 0) are tried
NumPatterns == 5     \* number of line contents tried per length
MaxPoints   == 5     \* bandwidth points of the sweep that are run
MaxRecords  == 2     \* records of the input file besides the excluded algorithms
MaxSweepRecords == 3 \* records handed to a single sweep
MaxConcRecords  == 2 \* records handed to two interleaved report runs

\* ------------------------------------------------------------------------
\* Text helpers
\* ------------------------------------------------------------------------
Min(a, b) == IF a < b THEN a ELSE b
Max(a, b) == IF a > b THEN a ELSE b

\* the characters str.strip() removes
Whitespace == {" ", "\t", "\n", "\r", "\f"}

\* Python's s[a:b] for 0 <= a <= b
Slice(s, a, b) == SubSeq(s, a + 1, Min(b, Len(s)))

\* Python's s.strip(): what lies between the first and the last character
\* that is not whitespace
Strip(s) ==
  LET solid == {i \in 1..Len(s) : s[i] \notin Whitespace}
  IN  IF solid = {} THEN <<>>
      ELSE SubSeq(s, CHOOSE i \in solid : \A j \in solid : i <= j,
                     CHOOSE i \in solid : \A j \in solid : i >= j)

\* ------------------------------------------------------------------------
\* Result (pivot.py:22-49)
\* ------------------------------------------------------------------------
MinLineLen == 170

\* parseLine's results: None, or an object of class Result
None == <<"None">>

Some(result) == <<"Result", result>>

Unparsed == <<"unparsed">>

\* the field offsets of Result.__init__
FieldOffsets ==
  [ algorithm    |-> <<0, 10>>,
    dataset      |-> <<10, 30>>,
    numLogs      |-> <<30, 40>>,
    inputBytes   |-> <<40, 55>>,
    outputBytes  |-> <<55, 70>>,
    ratio        |-> <<70, 80>>,
    computeTime  |-> <<80, 95>>,
    outputTime   |-> <<95, 110>>,
    maxTime      |-> <<110, 125>>,
    processingBW |-> <<125, 145>>,
    savedBW      |-> <<145, 160>>,
    logBW        |-> <<160, 170>>,
    avgMsgSize   |-> <<170, 180>> ]

FieldNames == DOMAIN FieldOffsets

\* a faulty variant: the slice starts one byte late
FieldSliceBad(l, f) == Slice(l, FieldOffsets[f][1] + 1, FieldOffsets[f][2])

FieldSlice(l, f) == Slice(l, FieldOffsets[f][1], FieldOffsets[f][2])

\* Result.__init__: every field is a stripped slice; .line is the stripped line
Result(l) ==
  [ f \in FieldNames \cup {"line"} |->
      IF f = "line" THEN Strip(l) ELSE Strip(FieldSlice(l, f)) ]

\* Result.validLine
validLine(l) == ~(Len(l) < MinLineLen)

\* Result.parseLine
parseLine(l) == IF Len(l) < MinLineLen THEN None ELSE Some(Result(l))

\* ------------------------------------------------------------------------
\* Input lines for the parser
\* ------------------------------------------------------------------------
CharTable == <<" ", "a", " ", "b", "\n", "1", "\t">>

PatternChar(p, i) == CharTable[((i * p) % Len(CharTable)) + 1]

MkLine(n, p) == [i \in 1..n |-> PatternChar(p, i)]

Lines == {MkLine(n, p) : n \in {0} \cup (ShortLen..MaxLineLen), p \in 0..NumPatterns}

\* ------------------------------------------------------------------------
\* Ordering of text (Python compares str byte by byte)
\* ------------------------------------------------------------------------
AsciiOrder ==
  <<"\t", "\n", "\f", "\r", " ", "+", ",", "-",
    "0", "1", "2", "3", "4", "5", "6", "7", "8", "9",
    "A", "B", "C", "D", "E", "F", "G", "H", "I", "J", "K", "L", "M",
    "N", "O", "P", "Q", "R", "S", "T", "U", "V", "W", "X", "Y", "Z", "_",
    "a", "b", "c", "d", "e", "f", "g", "h", "i", "j", "k", "l", "m",
    "n", "o", "p", "q", "r", "s", "t", "u", "v", "w", "x", "y", "z">>

Ord(c) == CHOOSE i \in 1..Len(AsciiOrder) : AsciiOrder[i] = c

RECURSIVE LexLess(_, _)
LexLess(s, t) ==
  IF t = <<>> THEN FALSE
  ELSE IF s = <<>> THEN TRUE
  ELSE IF Head(s) = Head(t) THEN LexLess(Tail(s), Tail(t))
  ELSE Ord(Head(s)) < Ord(Head(t))

Range(s) == {s[i] : i \in 1..Len(s)}

\* sorted(S) for a set of names
RECURSIVE SortedNames(_)
SortedNames(S) ==
  IF S = {} THEN <<>>
  ELSE LET m == CHOOSE x \in S : \A y \in S \ {x} : LexLess(x, y)
       IN  <<m>> \o SortedNames(S \ {m})

\* the algorithm ids of the model in Python's string order
AlgoOrder ==
  <<"gzip,1+s", "gzip,6+s", "gzip,9+s", "raw",
    "s+gzip,1", "s+gzip,6", "s+gzip,9", "zlib">>

AlgoRank(a) == CHOOSE i \in 1..Len(AlgoOrder) : AlgoOrder[i] = a

\* sorted(S) for a set of algorithm ids
RECURSIVE SortedAlgos(_)
SortedAlgos(S) ==
  IF S = {} THEN <<>>
  ELSE LET m == CHOOSE x \in S : \A y \in S : AlgoRank(x) <= AlgoRank(y)
       IN  <<m>> \o SortedAlgos(S \ {m})

\* ------------------------------------------------------------------------
\* Dataset names and the distribution/frequency pattern (pivot.py:192)
\* ------------------------------------------------------------------------
Digits == {"0", "1", "2", "3", "4", "5", "6", "7", "8", "9"}

\* last index of the longest run of digits of s that starts at i (i-1: none)
RECURSIVE DigitRunEnd(_, _)
DigitRunEnd(s, i) ==
  IF i <= Len(s) /\ s[i] \in Digits THEN DigitRunEnd(s, i + 1) ELSE i - 1

\* the same for [^ ]
RECURSIVE NonSpaceRunEnd(_, _)
NonSpaceRunEnd(s, i) ==
  IF i <= Len(s) /\ s[i] # " " THEN NonSpaceRunEnd(s, i + 1) ELSE i - 1

IsDash(s, i) == i <= Len(s) /\ s[i] = "-"

\* matcher.match(name) for "([BA]\d+-\d+)-([^ ]+)"
Match(s) ==
  LET e1 == DigitRunEnd(s, 2)
      e2 == DigitRunEnd(s, e1 + 2)
      e3 == NonSpaceRunEnd(s, e2 + 2)
  IN  IF /\ Len(s) >= 1
         /\ s[1] \in {"B", "A"}
         /\ e1 >= 2
         /\ IsDash(s, e1 + 1)
         /\ e2 >= e1 + 2
         /\ IsDash(s, e2 + 1)
         /\ e3 >= e2 + 2
      THEN [matched |-> TRUE, distribution |-> SubSeq(s, 1, e2),
            frequency |-> SubSeq(s, e2 + 2, e3)]
      ELSE [matched |-> FALSE, distribution |-> <<>>, frequency |-> <<>>]

\* k.startswith(prefix)
StartsWith(s, prefix) ==
  Len(s) >= Len(prefix) /\ SubSeq(s, 1, Len(prefix)) = prefix

\* re.match(".*<sub>.*", k)
Contains(s, sub) ==
  \E i \in 1..(Len(s) - Len(sub) + 1) : SubSeq(s, i, i + Len(sub) - 1) = sub

NameRand       == <<"R", "a", "n", "d">>
NameWeeklyOnly == <<"w", "e", "e", "k", "l", "y", "-", "o", "n", "l", "y">>
NameDist       == <<"A", "1", "2", "-", "3", "4", "-", "w", "e", "e", "k", "l", "y">>

MiB == 1024 * 1024

\* a record as the model keeps it: the fields the program reads, the numeric
\* fields as the numbers float() yields
Rec(alg, ds, ct, mib) ==
  [algorithm |-> alg, dataset |-> ds, computeTime |-> ct,
   outputBytes |-> mib * MiB, outputTime |-> ct]

\* the ids removed at pivot.py:248-253, in that order
Excluded ==
  <<"gzip,1+s", "gzip,6+s", "gzip,9+s", "s+gzip,1", "s+gzip,6", "s+gzip,9">>

EmptyDict == <<>>

\* all sequences over S of length at most n
RECURSIVE SeqsUpTo(_, _)
SeqsUpTo(S, n) ==
  IF n = 0 THEN {<<>>}
  ELSE LET shorter == SeqsUpTo(S, n - 1)
       IN  shorter \cup {Append(s, x) : s \in {t \in shorter : Len(t) = n - 1}, x \in S}

\* ------------------------------------------------------------------------
\* Exact arithmetic on times: <<n, d>> is n/d, d > 0, in lowest terms
\* ------------------------------------------------------------------------
RECURSIVE GCD(_, _)
GCD(a, b) == IF b = 0 THEN a ELSE GCD(b, a % b)

Rat(n, d) == LET g == GCD(n, d) IN <<n \div g, d \div g>>

RatLess(x, y) == x[1] * y[2] < y[1] * x[2]

RatMax(x, y) == IF RatLess(x, y) THEN y ELSE x

RatAdd(x, y) == Rat(x[1] * y[2] + y[1] * x[2], x[2] * y[2])

\* int(x) for x >= 0, as "%d" formats a float
RatTrunc(x) == x[1] \div x[2]

\* ------------------------------------------------------------------------
\* The sweep of runBandwidthCalculations (pivot.py:76-148), as functions
\* ------------------------------------------------------------------------
\* number of points of range(1,500,1) + range(500,5000,50) + range(5000,100000,100)
SweepLen == 499 + 90 + 950

\* the i-th bandwidth of the sweep, i in 1..SweepLen
BandwidthAt(i) ==
  IF i <= 499 THEN i
  ELSE IF i <= 589 THEN 500 + 50 * (i - 500)
  ELSE 5000 + 100 * (i - 590)

\* pivot.py:86: bestAlgoTime starts at 1e20, above every time of the model;
\* <<1, 0>> compares greater than every <<n, d>> with d > 0
InitialBestTime == <<1, 0>>

\* a faulty variant: the computeTime is left out
SelectionTimeIoOnly(r, b) == Rat(r.outputBytes, b * MiB)

\* pivot.py:92-94: outputTime = max(computeTime, outputBytes/(b*1024*1024))
SelectionTime(r, b) == RatMax(Rat(r.computeTime, 1), Rat(r.outputBytes, b * MiB))

\* a faulty variant: >= in place of >
BetterNonStrict(bestAlgoTime, outputTime) == ~RatLess(bestAlgoTime, outputTime)

\* pivot.py:97: if bestAlgoTime > outputTime
Better(bestAlgoTime, outputTime) == RatLess(outputTime, bestAlgoTime)

\* pivot.py:88-99: the loop over one dataset's results.  acc holds bestAlgo,
\* bestAlgoTime and totalOutputTime; allow is the global listOfAllAlgorithms.
RECURSIVE ScanResults(_, _, _, _)
ScanResults(results, b, allow, acc) ==
  IF results = <<>> THEN acc
  ELSE
    LET r == Head(results)
        t == SelectionTime(r, b)
        counted == [acc EXCEPT !.total[r.algorithm] = RatAdd(@, t)]
    IN  IF r.algorithm \notin Range(allow)
        THEN ScanResults(Tail(results), b, allow, acc)
        ELSE IF Better(acc.bestAlgoTime, t)
        THEN ScanResults(Tail(results), b, allow,
                         [counted EXCEPT !.bestAlgo = r.algorithm, !.bestAlgoTime = t])
        ELSE ScanResults(Tail(results), b, allow, counted)

\* iteration order of a dict keyed by dataset names.  CPython fixes the order
\* for a given dict; the model iterates in sorted order.
DictOrder(keys) == SortedNames(keys)

\* iteration order of wins and totalOutputTime (keyed by algorithm id)
AlgoDictOrder(keys) == SortedAlgos(keys)

\* pivot.py:83-101: the loop over the datasets at bandwidth b.  acc holds wins,
\* total, the datasets visited and whether wins[bestAlgo] raised KeyError.
RECURSIVE ScanDatasets(_, _, _, _, _)
ScanDatasets(order, data, b, allow, acc) ==
  IF order = <<>> \/ acc.keyError THEN acc
  ELSE
    LET dataset == Head(order)
        scan == ScanResults(data[dataset], b, allow,
                  [bestAlgo |-> "dummy", bestAlgoTime |-> InitialBestTime,
                   total |-> acc.total])
        seen == acc.visited \cup {dataset}
    IN  IF scan.bestAlgo \notin DOMAIN acc.wins
        THEN [acc EXCEPT !.keyError = TRUE, !.visited = seen, !.total = scan.total]
        ELSE ScanDatasets(Tail(order), data, b, allow,
               [acc EXCEPT !.wins[scan.bestAlgo] = Append(@, dataset),
                           !.visited = seen, !.total = scan.total])

\* pivot.py:77-101: wins and totalOutputTime of one bandwidth point
PointScan(data, algos, allow, b) ==
  ScanDatasets(DictOrder(DOMAIN data), data, b, allow,
    [wins |-> [a \in Range(algos) |-> <<>>],
     total |-> [a \in Range(algos) |-> <<0, 1>>],
     visited |-> {}, keyError |-> FALSE])

\* pivot.py:104-112: the first algorithm of the list with the largest win count
RECURSIVE BestOverall(_, _, _, _)
BestOverall(algos, wins, bestAlgo, bestAlgoCnt) ==
  IF algos = <<>> THEN bestAlgo
  ELSE IF Len(wins[Head(algos)]) > bestAlgoCnt
  THEN BestOverall(Tail(algos), wins, Head(algos), Len(wins[Head(algos)]))
  ELSE BestOverall(Tail(algos), wins, bestAlgo, bestAlgoCnt)

\* sorted(v) for a list of dataset names
SortedList(v) == SortedNames(Range(v))

\* sorted(winCounts, reverse=True) over a list of numbers
RECURSIVE SortedDesc(_)
SortedDesc(counts) ==
  IF counts = <<>> THEN <<>>
  ELSE LET i == CHOOSE j \in 1..Len(counts) :
                  \A k \in 1..Len(counts) : counts[j] >= counts[k]
       IN  <<counts[i]>> \o
           SortedDesc([k \in 1..(Len(counts) - 1) |->
                         IF k < i THEN counts[k] ELSE counts[k + 1]])

\* pivot.py:129-131: the entries written for one winCount
RECURSIVE EntriesFor(_, _, _)
EntriesFor(order, wins, winCount) ==
  IF order = <<>> THEN <<>>
  ELSE (IF Len(wins[Head(order)]) = winCount
        THEN << <<Head(order), SortedList(wins[Head(order)])>> >>
        ELSE <<>>)
       \o EntriesFor(Tail(order), wins, winCount)

\* pivot.py:125-131: the loop over winCounts
RECURSIVE BlockEntries(_, _, _)
BlockEntries(winCounts, order, wins) ==
  IF winCounts = <<>> THEN <<>>
  ELSE (IF Head(winCounts) = 0 THEN <<>>
        ELSE EntriesFor(order, wins, Head(winCounts)))
       \o BlockEntries(Tail(winCounts), order, wins)

\* pivot.py:121-136: one block of the change log
Block(b, wins, total) ==
  LET order == AlgoDictOrder(DOMAIN wins)
      winCounts == SortedDesc([i \in 1..Len(order) |-> Len(wins[order[i]])])
  IN  [bandwidth |-> b,
       entries   |-> BlockEntries(winCounts, order, wins),
       totals    |-> [i \in 1..Len(order) |-> <<order[i], RatTrunc(total[order[i]])>>]]

\* dict comparison (pivot.py:120)
DictEq(f, g) == DOMAIN f = DOMAIN g /\ \A k \in DOMAIN f : f[k] = g[k]

\* ------------------------------------------------------------------------
\* Files
\* ------------------------------------------------------------------------
\* a row of a file is <<tag, number, payload>>
OldRow == <<"old", 0, <<>>>>

\* a faulty variant: the label is left out of the file name
FileNameShared(label, ext) == <<"run", "all", ext>>

\* logDir + "/" + filename + ext (pivot.py:59-61)
FileName(label, ext) == <<"run", label, ext>>

\* logDir + "/" + dist + ".txt" (pivot.py:222)
GridFileName(dist) == <<"grid", dist, ".txt">>

Exts == {".txt", "-detailed.dat", "-absolute.txt"}

\* open(name, 'w') followed by the first rows
Create(f, name, rows) == (name :> rows) @@ f

WriteRow(f, name, row) == [f EXCEPT ![name] = Append(@, row)]

\* ------------------------------------------------------------------------
\* runBandwidthCalculations (pivot.py:51-152), one frame per call
\* ------------------------------------------------------------------------
NumPoints == Min(MaxPoints, SweepLen)

NewFrame(data, algos) ==
  [pc |-> "entry", data |-> data, algos |-> algos, i |-> 0,
   lastWins |-> EmptyDict, lastBestAlgo |-> "dummy", considered |-> {},
   err |-> "none"]

Raise(p, e) == proc' = [proc EXCEPT ![p].pc = "crashed", ![p].err = e]

Goto(p, where) == proc' = [proc EXCEPT ![p].pc = where]

\* a faulty variant: the directory is never created
NeedsMakeDirsNever(exists) == FALSE

\* pivot.py:56: if not os.path.exists(logDir)
NeedsMakeDirs(exists) == ~exists

\* pivot.py:52-56: the empty check and the test for the directory
RunEntry(p) ==
  /\ proc[p].pc = "entry"
  /\ IF DOMAIN proc[p].data = {}
     THEN /\ stdout' = stdout \cup {<<"warning", p>>}
          /\ Goto(p, "returned")
     ELSE /\ Goto(p, IF NeedsMakeDirs(dirExists) THEN "makedirs" ELSE "open")
          /\ UNCHANGED stdout
  /\ UNCHANGED <<parseVars, indexVars, pc, err, runIdx, dirExists, files, files0, openLog>>

\* pivot.py:57: os.makedirs(logDir) raises OSError when the directory exists
RunMakeDirs(p) ==
  /\ proc[p].pc = "makedirs"
  /\ IF dirExists
     THEN Raise(p, "OSError") /\ UNCHANGED dirExists
     ELSE Goto(p, "open") /\ dirExists' = TRUE
  /\ UNCHANGED <<parseVars, indexVars, pc, err, runIdx, files, files0, openLog, stdout>>

\* pivot.py:59-73: the three files are opened (truncated) and the header rows
\* written; open raises IOError when the directory is missing
RunOpen(p) ==
  /\ proc[p].pc = "open"
  /\ IF ~dirExists
     THEN /\ Raise(p, "IOError")
          /\ openLog' = openLog \cup {<<FileName(p, ".txt"), FALSE>>}
          /\ UNCHANGED <<files, stdout>>
     ELSE /\ files' =
               Create(Create(Create(files,
                 FileName(p, ".txt"), << <<"header", 0, proc[p].algos>> >>),
                 FileName(p, "-detailed.dat"), <<>>),
                 FileName(p, "-absolute.txt"), << <<"header", 0, proc[p].algos>> >>)
          /\ openLog' = openLog \cup {<<FileName(p, e), TRUE>> : e \in Exts}
          /\ stdout' = stdout \cup {<<"running", p>>}
          /\ Goto(p, "sweep")
  /\ UNCHANGED <<parseVars, indexVars, pc, err, runIdx, dirExists, files0>>

\* a faulty variant: lastWins is never replaced
KeepLastWins(lastWins, wins) == lastWins

\* pivot.py:148: lastWins = wins
NextLastWins(lastWins, wins) == wins

\* pivot.py:76-148: one iteration of the loop over the bandwidths
RunPoint(p) ==
  /\ proc[p].pc = "sweep"
  /\ proc[p].i < NumPoints
  /\ LET f     == proc[p]
         b     == BandwidthAt(f.i + 1)
         scan  == PointScan(f.data, f.algos, listOfAllAlgorithms, b)
         wins  == scan.wins
         considered == f.considered \cup scan.visited
         best  == BestOverall(f.algos, wins, "dummy", -1)
         oRow  == <<"row", b, [k \in 1..Len(f.algos) |-> Len(wins[f.algos[k]])]>>
         aRow  == <<"row", b, [k \in 1..Len(f.algos) |-> scan.total[f.algos[k]]]>>
         rows  == WriteRow(WriteRow(files, FileName(p, ".txt"), oRow),
                           FileName(p, "-absolute.txt"), aRow)
     IN  IF scan.keyError
         THEN /\ Raise(p, "KeyError")
              /\ UNCHANGED <<files, stdout>>
         ELSE /\ files' =
                   IF ~DictEq(f.lastWins, wins)
                   THEN WriteRow(rows, FileName(p, "-detailed.dat"),
                                 <<"block", b, Block(b, wins, scan.total)>>)
                   ELSE rows
              /\ stdout' =
                   IF f.lastBestAlgo # best
                   THEN stdout \cup
                          {<<"best", p, b, best,
                             Rat(Len(wins[best]) * 100, Cardinality(considered))>>}
                   ELSE stdout
              /\ proc' = [proc EXCEPT ![p].i = f.i + 1,
                                      ![p].lastWins = NextLastWins(f.lastWins, wins),
                                      ![p].lastBestAlgo = best,
                                      ![p].considered = considered]
  /\ UNCHANGED <<parseVars, indexVars, pc, err, runIdx, dirExists, files0, openLog>>

\* pivot.py:150-152: the trailer row; the files are closed
RunTrailer(p) ==
  /\ proc[p].pc = "sweep"
  /\ proc[p].i = NumPoints
  /\ files' = WriteRow(files, FileName(p, ".txt"),
                       <<"trailer", 0, SortedNames(proc[p].considered)>>)
  /\ Goto(p, "returned")
  /\ UNCHANGED <<parseVars, indexVars, pc, err, runIdx, dirExists, files0, openLog, stdout>>

Entry    == \E p \in DOMAIN proc : RunEntry(p)
MakeDirs == \E p \in DOMAIN proc : RunMakeDirs(p)
Open     == \E p \in DOMAIN proc : RunOpen(p)
Point    == \E p \in DOMAIN proc : RunPoint(p)
Trailer  == \E p \in DOMAIN proc : RunTrailer(p)

\* ------------------------------------------------------------------------
\* Module-level code (pivot.py:154-293)
\* ------------------------------------------------------------------------
Crash(e) == pc' = "crashed" /\ err' = e

\* pivot.py:213-216: the record joins its dataset's list
AddResult(d2r, res) ==
  IF res.dataset \in DOMAIN d2r
  THEN [d2r EXCEPT ![res.dataset] = Append(@, res)]
  ELSE (res.dataset :> <<res>>) @@ d2r

\* pivot.py:175: print allResults[0]...
PrintFirst ==
  /\ pc = "print"
  /\ IF allResults = <<>> THEN Crash("IndexError")
     ELSE pc' = "index" /\ UNCHANGED err
  /\ UNCHANGED <<parseVars, indexVars, runIdx, fsVars, proc>>

\* pivot.py:193-216: one iteration of the index loop.  For a dataset name that
\* matches, line 199 reads res.totalTime, which Result does not have:
\* AttributeError, before lines 201-210 touch frequencies or logResults.
Ingest ==
  /\ pc = "index"
  /\ idx < Len(allResults)
  /\ LET res == allResults[idx + 1]
         m   == Match(res.dataset)
     IN  IF m.matched
         THEN /\ Crash("AttributeError")
              /\ UNCHANGED <<idx, algorithms, dataset2results>>
         ELSE /\ algorithms' = algorithms \cup {res.algorithm}
              /\ dataset2results' = AddResult(dataset2results, res)
              /\ idx' = idx + 1
              /\ UNCHANGED <<pc, err>>
  /\ UNCHANGED <<parseVars, allResults, logResults, frequencies, listOfAllAlgorithms,
                 runIdx, fsVars, proc>>

\* pivot.py:218-219
SortSets ==
  /\ pc = "index"
  /\ idx = Len(allResults)
  /\ algorithms' = SortedAlgos(algorithms)
  /\ frequencies' = SortedNames(frequencies)
  /\ pc' = "grid"
  /\ UNCHANGED <<parseVars, allResults, idx, logResults, dataset2results,
                 listOfAllAlgorithms, err, runIdx, fsVars, proc>>

Distributions == {k[1] : k \in DOMAIN logResults}

\* pivot.py:229-241: the rows of one distribution's grid
GridRows(dist) ==
  LET present == SelectSeq(frequencies,
                   LAMBDA fr : \E k \in DOMAIN logResults : k[1] = dist /\ k[2] = fr)
  IN  [n \in 1..Len(present) |->
        <<"row", 0,
          <<present[n],
            [k \in 1..Len(algorithms) |->
               IF <<dist, present[n], algorithms[k]>> \in DOMAIN logResults
               THEN LET res == logResults[<<dist, present[n], algorithms[k]>>]
                    IN  Max(res.computeTime, res.outputTime)
               ELSE 0]>> >>]

\* pivot.py:221-242: one grid file per distribution; no directory is created
\* here, so open raises IOError when details/ is missing
GridOutput ==
  /\ pc = "grid"
  /\ IF Distributions = {}
     THEN pc' = "allow" /\ UNCHANGED <<err, files, openLog>>
     ELSE IF ~dirExists
     THEN /\ Crash("IOError")
          /\ \E d \in Distributions : openLog' = openLog \cup {<<GridFileName(d), FALSE>>}
          /\ UNCHANGED files
     ELSE /\ files' = [n \in {GridFileName(d) : d \in Distributions} |->
                         << <<"header", 0, algorithms>> >> \o GridRows(n[2])] @@ files
          /\ openLog' = openLog \cup {<<GridFileName(d), TRUE>> : d \in Distributions}
          /\ pc' = "allow"
          /\ UNCHANGED err
  /\ UNCHANGED <<parseVars, indexVars, runIdx, dirExists, files0, stdout, proc>>

\* list.remove(x): the first x is removed
RECURSIVE RemoveFirst(_, _)
RemoveFirst(list, x) ==
  IF list = <<>> THEN <<>>
  ELSE IF Head(list) = x THEN Tail(list)
  ELSE <<Head(list)>> \o RemoveFirst(Tail(list), x)

\* pivot.py:248-253: the removes in order; list.remove raises ValueError for
\* an id that is not in the list
RECURSIVE RemoveExcluded(_, _)
RemoveExcluded(list, k) ==
  IF k > Len(Excluded) THEN [ok |-> TRUE, list |-> list]
  ELSE IF Excluded[k] \notin Range(list) THEN [ok |-> FALSE, list |-> list]
  ELSE RemoveExcluded(RemoveFirst(list, Excluded[k]), k + 1)

\* pivot.py:248-254
ComputeAllowList ==
  /\ pc = "allow"
  /\ LET r == RemoveExcluded(algorithms, 1)
     IN  /\ algorithms' = r.list
         /\ IF r.ok
            THEN /\ listOfAllAlgorithms' = SortedAlgos(Range(r.list))
                 /\ pc' = "runs"
                 /\ UNCHANGED err
            ELSE /\ Crash("ValueError")
                 /\ UNCHANGED listOfAllAlgorithms
  /\ UNCHANGED <<parseVars, allResults, idx, logResults, frequencies, dataset2results,
                 runIdx, fsVars, proc>>

\* the report runs of pivot.py:257-293: label and dataset-name selector
RunList ==
  << [label |-> "all",      kind |-> "all",        pat |-> <<>>],
     [label |-> "e_rand",   kind |-> "startswith", pat |-> <<"R", "a", "n", "d">>],
     [label |-> "e_incr",   kind |-> "startswith", pat |-> <<"I", "n", "c", "r">>],
     [label |-> "s_small",  kind |-> "contains",   pat |-> <<"S", "m", "a", "l", "l">>],
     [label |-> "s_reg",    kind |-> "contains",   pat |-> <<"R", "e", "g">>],
     [label |-> "s_big",    kind |-> "contains",   pat |-> <<"B", "i", "g">>],
     [label |-> "t_double", kind |-> "contains",   pat |-> <<"D", "o", "u", "b", "l", "e">>],
     [label |-> "t_int",    kind |-> "contains",   pat |-> <<"I", "n", "t">>],
     [label |-> "t_long",   kind |-> "contains",   pat |-> <<"L", "o", "n", "g">>],
     [label |-> "t_string", kind |-> "contains",   pat |-> <<"C", "h", "a", "r", "s">>] >>

Selected(sel, name) ==
  CASE sel.kind = "all"        -> TRUE
    [] sel.kind = "startswith" -> StartsWith(name, sel.pat)
    [] sel.kind = "contains"   -> Contains(name, sel.pat)

\* {k:v for k,v in dataset2results.iteritems() if ...}
Subset(d2r, sel) == [k \in {n \in DOMAIN d2r : Selected(sel, n)} |-> d2r[k]]

Returned == \A p \in DOMAIN proc : proc[p].pc = "returned"

\* the next call of runBandwidthCalculations, once the previous one returned
CallRun ==
  /\ pc = "runs"
  /\ Returned
  /\ runIdx < Len(RunList)
  /\ runIdx' = runIdx + 1
  /\ proc' = (RunList[runIdx + 1].label :>
                NewFrame(Subset(dataset2results, RunList[runIdx + 1]),
                         listOfAllAlgorithms))
  /\ UNCHANGED <<parseVars, indexVars, pc, err, fsVars>>

\* pivot.py:293: the last report run returned
Finish ==
  /\ pc = "runs"
  /\ Returned
  /\ runIdx = Len(RunList)
  /\ pc' = "done"
  /\ UNCHANGED <<parseVars, indexVars, err, runIdx, fsVars, proc>>

\* an exception of a report run ends the program
Abort ==
  /\ pc = "runs"
  /\ \E p \in DOMAIN proc :
       /\ proc[p].pc = "crashed"
       /\ Crash(proc[p].err)
  /\ UNCHANGED <<parseVars, indexVars, runIdx, fsVars, proc>>

\* ------------------------------------------------------------------------
\* Initial states
\* ------------------------------------------------------------------------
\* details/ is missing, or exists and holds the files of an earlier execution
OldLabels == {"all", "e_rand", "e_incr"}

OldFiles == [n \in {FileName(l, e) : l \in OldLabels, e \in Exts} |-> <<OldRow>>]

FsInit ==
  /\ \/ dirExists = FALSE /\ files = EmptyDict
     \/ dirExists = TRUE /\ files = OldFiles
  /\ files0 = files
  /\ openLog = {}
  /\ stdout = {}

ParseIdle == line = <<>> /\ parsed = Unparsed

\* one record per excluded algorithm, in dataset ds
ExcludedRecords(ds) == [k \in 1..Len(Excluded) |-> Rec(Excluded[k], ds, 1, 1)]

Allowed == {"raw", "zlib"}

MainPool == {Rec(a, d, 1, 2) : a \in Allowed, d \in {NameRand, NameWeeklyOnly, NameDist}}

\* the input file: all, all but one or none of the excluded algorithms, then
\* up to MaxRecords records of the other algorithms
MainInputs ==
  {SubSeq(ExcludedRecords(NameRand), 1, n) \o v :
     n \in {0, Len(Excluded) - 1, Len(Excluded)}, v \in SeqsUpTo(MainPool, MaxRecords)}

\* the whole program, started after the input lines were parsed (pivot.py:173)
Init ==
  /\ ParseIdle
  /\ allResults \in MainInputs
  /\ idx = 0
  /\ logResults = EmptyDict
  /\ frequencies = {}
  /\ algorithms = {}
  /\ dataset2results = EmptyDict
  /\ listOfAllAlgorithms = <<>>
  /\ pc = "print"
  /\ err = "none"
  /\ runIdx = 0
  /\ FsInit
  /\ proc = EmptyDict

Next ==
  \/ PrintFirst
  \/ Ingest
  \/ SortSets
  \/ GridOutput
  \/ ComputeAllowList
  \/ CallRun
  \/ Entry
  \/ MakeDirs
  \/ Open
  \/ Point
  \/ Trailer
  \/ Finish
  \/ Abort

Spec == Init /\ [][Next]_vars

\* ------------------------------------------------------------------------
\* parseLine alone, on lines around the 170-byte limit
\* ------------------------------------------------------------------------
InitParse ==
  /\ line \in Lines
  /\ parsed = Unparsed
  /\ allResults = <<>>
  /\ idx = 0
  /\ logResults = EmptyDict
  /\ frequencies = {}
  /\ algorithms = {}
  /\ dataset2results = EmptyDict
  /\ listOfAllAlgorithms = <<>>
  /\ pc = "parse"
  /\ err = "none"
  /\ runIdx = 0
  /\ dirExists = FALSE /\ files = EmptyDict /\ files0 = EmptyDict
  /\ openLog = {} /\ stdout = {}
  /\ proc = EmptyDict

\* a call of Result.parseLine
ParseLine ==
  /\ pc = "parse"
  /\ parsed = Unparsed
  /\ parsed' = parseLine(line)
  /\ UNCHANGED <<line, indexVars, pc, err, runIdx, fsVars, proc>>

NextParse == ParseLine

SpecParse == InitParse /\ [][NextParse]_vars

\* ------------------------------------------------------------------------
\* One call of runBandwidthCalculations on the index built from the records
\* ------------------------------------------------------------------------
\* the index loop (pivot.py:193-216) over records whose names do not match
RECURSIVE GroupAll(_, _)
GroupAll(results, d2r) ==
  IF results = <<>> THEN d2r
  ELSE GroupAll(Tail(results), AddResult(d2r, Head(results)))

\* pivot.py:218, 248-254 when every remove succeeds
AllowListOf(results) ==
  SortedAlgos({results[n].algorithm : n \in 1..Len(results)} \ Range(Excluded))

\* records of a sweep: <<computeTime, MiB written>> is <<2, 2>> or <<1, 4>>, so
\* that the faster output wins at 1 MB/s, the two tie at 2 MB/s and the faster
\* computation wins from 3 MB/s on
SweepPool ==
  {Rec(a, NameRand, t[1], t[2]) : a \in Allowed, t \in {<<2, 2>>, <<1, 4>>}}
  \cup {Rec("zlib", NameWeeklyOnly, 2, 2)}
  \cup {Rec(Excluded[1], NameRand, 1, 1)}

InitCall(inputs, labels) ==
  /\ ParseIdle
  /\ allResults \in inputs
  /\ idx = Len(allResults)
  /\ logResults = EmptyDict
  /\ frequencies = <<>>
  /\ algorithms = AllowListOf(allResults)
  /\ dataset2results = GroupAll(allResults, EmptyDict)
  /\ listOfAllAlgorithms = AllowListOf(allResults)
  /\ pc = "call"
  /\ err = "none"
  /\ runIdx = 0
  /\ FsInit
  /\ proc = [l \in labels |->
               NewFrame(Subset(dataset2results,
                               RunList[CHOOSE n \in 1..Len(RunList) : RunList[n].label = l]),
                        listOfAllAlgorithms)]

InitSweep == InitCall(SeqsUpTo(SweepPool, MaxSweepRecords), {"all"})

NextSweep ==
  \/ Entry
  \/ MakeDirs
  \/ Open
  \/ Point
  \/ Trailer

SpecSweep == InitSweep /\ [][NextSweep]_vars

\* ------------------------------------------------------------------------
\* Two calls of runBandwidthCalculations whose steps interleave
\* ------------------------------------------------------------------------
ConcPool ==
  {Rec("raw", NameRand, 1, 4), Rec("zlib", NameRand, 2, 2),
   Rec("zlib", NameWeeklyOnly, 2, 2), Rec(Excluded[1], NameRand, 1, 1)}

InitConc == InitCall(SeqsUpTo(ConcPool, MaxConcRecords), {"all", "e_rand"})

SpecConc == InitConc /\ [][NextSweep]_vars

\* ------------------------------------------------------------------------
\* Vocabulary of the claims about the sweep
\* ------------------------------------------------------------------------
\* the frames that finished at least one bandwidth point
Swept == {p \in DOMAIN proc : proc[p].pc \in {"sweep", "returned"} /\ proc[p].i >= 1}

\* the algorithm whose win list holds dataset d
WinnerIn(wins, d) == CHOOSE a \in DOMAIN wins : d \in Range(wins[a])

\* the win lists the code computes at the n-th point
WinsAt(p, n) ==
  PointScan(proc[p].data, proc[p].algos, listOfAllAlgorithms, BandwidthAt(n)).wins

\* the win lists of the points 1..n
RECURSIVE WinsUpTo(_, _)
WinsUpTo(p, n) == IF n = 0 THEN <<>> ELSE Append(WinsUpTo(p, n - 1), WinsAt(p, n))

\* positions of the allow-listed records of dataset d
Listed(p, d) ==
  {j \in 1..Len(proc[p].data[d]) :
     proc[p].data[d][j].algorithm \in Range(listOfAllAlgorithms)}

\* max(computeTime, outputBytes / (b*1024*1024)) <= the same of r2, with the
\* division cleared
TimeLeq(r1, r2, b) ==
  LET s1 == Max(r1.computeTime * b * MiB, r1.outputBytes)
      s2 == Max(r2.computeTime * b * MiB, r2.outputBytes)
  IN  s1 <= s2

\* positions of the allow-listed records of least selectionTime at bandwidth b
Fastest(p, d, b) ==
  {j \in Listed(p, d) :
     \A k \in Listed(p, d) : TimeLeq(proc[p].data[d][j], proc[p].data[d][k], b)}

Reverse(s) == [n \in 1..Len(s) |-> s[Len(s) + 1 - n]]

\* position of algorithm a in list
IndexIn(list, a) == CHOOSE n \in 1..Len(list) : list[n] = a

DetailFile(p) == files[FileName(p, "-detailed.dat")]

HasBlock(p, n) ==
  \E k \in 1..Len(DetailFile(p)) :
    DetailFile(p)[k][1] = "block" /\ DetailFile(p)[k][2] = BandwidthAt(n)

\* ------------------------------------------------------------------------
\* C9
\* ------------------------------------------------------------------------
\* the offsets as the specification lists them
StatedOffsets ==
  << <<"algorithm", 0, 10>>, <<"dataset", 10, 30>>, <<"numLogs", 30, 40>>,
     <<"inputBytes", 40, 55>>, <<"outputBytes", 55, 70>>, <<"ratio", 70, 80>>,
     <<"computeTime", 80, 95>>, <<"outputTime", 95, 110>>, <<"maxTime", 110, 125>>,
     <<"processingBW", 125, 145>>, <<"savedBW", 145, 160>>, <<"logBW", 160, 170>>,
     <<"avgMsgSize", 170, 180>> >>

\* t is what is left of the bytes a..b-1 of l once the whitespace at both ends
\* is dropped
IsTrimmedSlice(t, l, a, b) ==
  LET W == (a + 1)..Min(b, Len(l))
  IN  \/ t = <<>> /\ \A k \in W : l[k] \in Whitespace
      \/ \E i, j \in W :
           /\ i <= j
           /\ t = SubSeq(l, i, j)
           /\ l[i] \notin Whitespace
           /\ l[j] \notin Whitespace
           /\ \A k \in W : (k < i \/ k > j) => l[k] \in Whitespace

\* C9: parseLine returns None exactly for the lines shorter than 170 bytes;
\* for every other line it returns a record whose every field is the
\* whitespace-trimmed substring at the stated offsets.
C9_ParseLine ==
  parsed # Unparsed =>
    /\ (parsed = None) <=> (Len(line) < 170)
    /\ Len(line) >= 170 =>
         /\ parsed[1] = "Result"
         /\ \A n \in 1..Len(StatedOffsets) :
              IsTrimmedSlice(parsed[2][StatedOffsets[n][1]], line,
                             StatedOffsets[n][2], StatedOffsets[n][3])

\* a line of 170..179 bytes was parsed: fields were trimmed on both sides and
\* avgMsgSize holds what is left of a slice cut short by the end of the line
C9_Witness ==
  /\ parsed # Unparsed /\ parsed # None
  /\ Len(line) >= 170 /\ Len(line) < 180
  /\ parsed[2].avgMsgSize # <<>>
  /\ \E f \in FieldNames :
       /\ parsed[2][f] # <<>>
       /\ line[FieldOffsets[f][1] + 1] \in Whitespace
       /\ line[FieldOffsets[f][2]] \in Whitespace

\* ------------------------------------------------------------------------
\* C1
\* ------------------------------------------------------------------------
\* the win lists of the same point with the allow-list reversed
ReversedWinsAt(p, n) ==
  PointScan(proc[p].data, Reverse(proc[p].algos), Reverse(listOfAllAlgorithms),
            BandwidthAt(n)).wins

\* C1 as stated: of two allow-listed records that tie at the least
\* selectionTime, the one whose algorithm comes first in the allow-list wins,
\* and with the allow-list reversed the other one wins.
C1_AllowListOrderBreaksTies ==
  \A p \in Swept : \A d \in DOMAIN proc[p].data :
    \A j, k \in Fastest(p, d, BandwidthAt(proc[p].i)) :
      LET rj == proc[p].data[d][j]
          rk == proc[p].data[d][k]
      IN  IndexIn(proc[p].algos, rj.algorithm) < IndexIn(proc[p].algos, rk.algorithm)
          /\ Fastest(p, d, BandwidthAt(proc[p].i)) = {j, k}
          => /\ WinnerIn(proc[p].lastWins, d) = rj.algorithm
             /\ WinnerIn(ReversedWinsAt(p, proc[p].i), d) = rk.algorithm

\* C1 amended: the record that comes first in the dataset's list (the order
\* of the input file) among those of least selectionTime wins, whatever the
\* order of the allow-list.
C1_RecordOrderBreaksTies ==
  \A p \in Swept : \A d \in DOMAIN proc[p].data :
    \A j \in Fastest(p, d, BandwidthAt(proc[p].i)) :
      (\A k \in Fastest(p, d, BandwidthAt(proc[p].i)) : j <= k)
      => /\ WinnerIn(proc[p].lastWins, d) = proc[p].data[d][j].algorithm
         /\ WinnerIn(ReversedWinsAt(p, proc[p].i), d) = proc[p].data[d][j].algorithm

\* two records tie at the least selectionTime and the winner is the one whose
\* algorithm comes later in the allow-list
C1_Witness ==
  \E p \in Swept : \E d \in DOMAIN proc[p].data :
    \E j, k \in Fastest(p, d, BandwidthAt(proc[p].i)) :
      /\ j < k
      /\ IndexIn(proc[p].algos, proc[p].data[d][k].algorithm)
           < IndexIn(proc[p].algos, proc[p].data[d][j].algorithm)
      /\ WinnerIn(proc[p].lastWins, d) = proc[p].data[d][j].algorithm

\* ------------------------------------------------------------------------
\* C2
\* ------------------------------------------------------------------------
\* C2: after the first point a block is written exactly at the points whose
\* win lists differ from those of the point before, and a dataset whose
\* winner differs between two points has a block in between.
C2_BlockIffWinsChanged ==
  \A p \in Swept :
    LET W == WinsUpTo(p, proc[p].i)
        changed == {n \in 2..proc[p].i : ~DictEq(W[n], W[n - 1])}
        blocks  == {n \in 2..proc[p].i : HasBlock(p, n)}
    IN  /\ blocks = changed
        /\ \A m, n \in 1..proc[p].i : \A d \in DOMAIN proc[p].data :
             m < n /\ WinnerIn(W[m], d) # WinnerIn(W[n], d)
             => \E k \in (m + 1)..n : k \in blocks

\* a sweep in which the winner of a dataset changed: a block at some later
\* point, none at another
C2_Witness ==
  \E p \in Swept : \E d \in DOMAIN proc[p].data :
    /\ proc[p].i >= 3
    /\ WinnerIn(WinsAt(p, 1), d) # WinnerIn(proc[p].lastWins, d)
    /\ \E n \in 2..proc[p].i : HasBlock(p, n)
    /\ \E n \in 2..proc[p].i : ~HasBlock(p, n)

\* ------------------------------------------------------------------------
\* C3
\* ------------------------------------------------------------------------
\* outputBytes / (b*1024*1024) <= computeTime for every allow-listed record
ComputeBound(p, d, b) ==
  \A j \in Listed(p, d) :
    proc[p].data[d][j].outputBytes <= proc[p].data[d][j].computeTime * b * MiB

\* position of the first allow-listed record of least computeTime
Quickest(p, d) ==
  CHOOSE j \in Listed(p, d) :
    \A k \in Listed(p, d) :
      \/ proc[p].data[d][j].computeTime < proc[p].data[d][k].computeTime
      \/ proc[p].data[d][j].computeTime = proc[p].data[d][k].computeTime /\ j <= k

\* C3: once every allow-listed record of a dataset is compute-bound, it stays
\* so at every later point and the winner is, at each of them, one and the
\* same record, of least computeTime.
C3_WinnerStabilizes ==
  \A p \in Swept : \A d \in DOMAIN proc[p].data :
    \A n \in 1..proc[p].i :
      Listed(p, d) # {} /\ ComputeBound(p, d, BandwidthAt(n))
      => /\ ComputeBound(p, d, BandwidthAt(proc[p].i))
         /\ WinnerIn(proc[p].lastWins, d) = proc[p].data[d][Quickest(p, d)].algorithm
         /\ \A k \in Listed(p, d) :
              proc[p].data[d][Quickest(p, d)].computeTime
                <= proc[p].data[d][k].computeTime

\* a dataset was I/O-bound at the first point with another winner, and has
\* been compute-bound for two points
C3_Witness ==
  \E p \in Swept : \E d \in DOMAIN proc[p].data :
    /\ proc[p].i >= 2
    /\ Listed(p, d) # {}
    /\ ~ComputeBound(p, d, BandwidthAt(1))
    /\ ComputeBound(p, d, BandwidthAt(proc[p].i - 1))
    /\ WinnerIn(WinsAt(p, 1), d) # WinnerIn(proc[p].lastWins, d)

\* ------------------------------------------------------------------------
\* C10
\* ------------------------------------------------------------------------
IsSorted(names) == \A m \in 1..(Len(names) - 1) : LexLess(names[m], names[m + 1])

\* C10: every block lists each algorithm with a win exactly once, none without
\* a win, by non-increasing win count, each with its datasets in sorted order.
C10_BlockListsEachWinnerOnce ==
  \A p \in Swept : \A r \in 1..Len(DetailFile(p)) :
    LET block == DetailFile(p)[r][3]
        E     == block.entries
        wins  == PointScan(proc[p].data, proc[p].algos, listOfAllAlgorithms,
                           block.bandwidth).wins
    IN  /\ \A a \in DOMAIN wins :
             Cardinality({n \in 1..Len(E) : E[n][1] = a})
               = IF Len(wins[a]) > 0 THEN 1 ELSE 0
        /\ \A n \in 1..Len(E) :
             /\ Range(E[n][2]) = Range(wins[E[n][1]])
             /\ IsSorted(E[n][2])
        /\ \A n \in 1..(Len(E) - 1) : Len(E[n][2]) >= Len(E[n + 1][2])

\* ------------------------------------------------------------------------
\* C4
\* ------------------------------------------------------------------------
\* C4: every record the index loop has reached is in its dataset's list; it
\* is in the distribution/frequency index under (distribution, frequency,
\* algorithm) exactly if its dataset name matches; and the loop goes on to
\* the next record.
C4_MatchingRecordsIndexed ==
  /\ err # "AttributeError"
  /\ \A n \in 1..idx :
       LET res == allResults[n]
           m   == Match(res.dataset)
       IN  /\ res.dataset \in DOMAIN dataset2results
           /\ res \in Range(dataset2results[res.dataset])
           /\ m.matched =>
                <<m.distribution, m.frequency, res.algorithm>> \in DOMAIN logResults
           /\ ~m.matched =>
                \A k \in DOMAIN logResults : logResults[k] # res

\* ------------------------------------------------------------------------
\* C5
\* ------------------------------------------------------------------------
Ended(p) == proc[p].pc \in {"returned", "crashed"}

RunFiles(p) == {FileName(p, e) : e \in Exts}

\* the files of run p are as they were before the program started
Untouched(p) ==
  \A n \in RunFiles(p) :
    /\ n \in DOMAIN files <=> n \in DOMAIN files0
    /\ n \in DOMAIN files => files[n] = files0[n]

\* C5: a report run none of whose datasets has an allow-listed record (an
\* empty subset included) ends with a warning, no artifact written or
\* truncated, and no error.
C5_NothingToReport ==
  \A p \in DOMAIN proc :
    Ended(p) /\ (\A d \in DOMAIN proc[p].data : Listed(p, d) = {})
    => /\ <<"warning", p>> \in stdout
       /\ Untouched(p)
       /\ proc[p].err = "none"

\* ------------------------------------------------------------------------
\* C6
\* ------------------------------------------------------------------------
Observed == {allResults[n].algorithm : n \in 1..Len(allResults)}

\* C6: computing the allow-list never aborts the program, and every report
\* run is handed the sorted observed ids less the excluded ones.
C6_AllowListIsDifference ==
  /\ err # "ValueError"
  /\ \A p \in DOMAIN proc :
       /\ proc[p].algos = SortedAlgos(Observed \ Range(Excluded))
       /\ listOfAllAlgorithms = proc[p].algos

AloneErr(p) ==
  IF \E d \in DOMAIN proc[p].data : Listed(p, d) = {} THEN "KeyError" ELSE "none"

ScanAt(p, n) ==
  PointScan(proc[p].data, proc[p].algos, listOfAllAlgorithms, BandwidthAt(n))

HeaderRow(p) == <<"header", 0, proc[p].algos>>

RECURSIVE AloneBlocks(_, _, _)
AloneBlocks(p, n, last) ==
  IF n > NumPoints THEN <<>>
  ELSE (IF ~DictEq(last, ScanAt(p, n).wins)
        THEN << <<"block", BandwidthAt(n),
                  Block(BandwidthAt(n), ScanAt(p, n).wins, ScanAt(p, n).total)>> >>
        ELSE <<>>)
       \o AloneBlocks(p, n + 1, ScanAt(p, n).wins)

AloneRows(p, ext) ==
  LET algos == proc[p].algos
  IN  CASE AloneErr(p) # "none" /\ ext = "-detailed.dat" -> <<>>
        [] AloneErr(p) # "none" /\ ext # "-detailed.dat" -> <<HeaderRow(p)>>
        [] AloneErr(p) = "none" /\ ext = ".txt" ->
             <<HeaderRow(p)>>
             \o [n \in 1..NumPoints |->
                   <<"row", BandwidthAt(n),
                     [k \in 1..Len(algos) |-> Len(ScanAt(p, n).wins[algos[k]])]>>]
             \o << <<"trailer", 0, SortedNames(DOMAIN proc[p].data)>> >>
        [] AloneErr(p) = "none" /\ ext = "-absolute.txt" ->
             <<HeaderRow(p)>>
             \o [n \in 1..NumPoints |->
                   <<"row", BandwidthAt(n),
                     [k \in 1..Len(algos) |-> ScanAt(p, n).total[algos[k]]]>>]
        [] AloneErr(p) = "none" /\ ext = "-detailed.dat" ->
             AloneBlocks(p, 1, EmptyDict)

FileIn(fs, name) ==
  IF name \in DOMAIN fs THEN [exists |-> TRUE, rows |-> fs[name]]
  ELSE [exists |-> FALSE, rows |-> <<>>]

AsAlone(p) ==
  IF DOMAIN proc[p].data = {}
  THEN proc[p].err = "none" /\ Untouched(p)
  ELSE /\ proc[p].err = AloneErr(p)
       /\ \A e \in Exts :
            FileIn(files, FileName(p, e)) = [exists |-> TRUE, rows |-> AloneRows(p, e)]

\* C8 as stated, for the runs that end without an error when executed alone:
\* interleaved with another run they end without an error and with the same
\* artifacts.
C8_InterleavingIsHarmless ==
  \A p \in DOMAIN proc :
    AloneErr(p) = "none"
    => /\ proc[p].err = "none"
       /\ Ended(p) => AsAlone(p)

\* C8 amended: the runs write disjoint files, and a run ends as it does when
\* executed alone unless its os.makedirs finds the directory that the other
\* run created after both had found it missing; that run ends with OSError
\* and leaves its files untouched.
C8_OnlyTheDirectoryIsShared ==
  \A p \in DOMAIN proc :
    Ended(p) =>
      IF proc[p].err = "OSError"
      THEN /\ files0 = EmptyDict
           /\ Untouched(p)
           /\ \E q \in DOMAIN proc \ {p} :
                proc[q].pc \notin {"entry", "makedirs"} /\ DOMAIN proc[q].data # {}
      ELSE AsAlone(p)

\* one run has ended with all its points written while the other is in the
\* middle of its sweep
C8_Witness ==
  \E p, q \in DOMAIN proc :
    /\ p # q
    /\ proc[p].pc = "returned" /\ proc[p].i = NumPoints
    /\ proc[q].pc = "sweep" /\ proc[q].i >= 1 /\ proc[q].i < NumPoints

====
